---------------------------- MODULE Spec2Model ----------------------------
(***************************************************************************)
(* A model of libsysres (serverpod/system_resources_2): the container-     *)
(* aware CPU and memory readers of lib/src/libsysres/{cpu.c,memory.c}, the  *)
(* older tools/libsysres/memory.c and the deploy/monitor.c helper.         *)
(*                                                                         *)
(* The state is what the functions read (the environment variable, the     *)
(* contents of the cgroup and /proc files, the host's core count and       *)
(* sysinfo) and what the last call returned.  File contents are sequences  *)
(* of one-character strings, and every parser (strtof, strtoll, atoll,     *)
(* sscanf, fscanf, strstr, strncmp) works on the characters as the C       *)
(* library does.  A float is kept as an exact fraction [n, d] in lowest    *)
(* terms, or as the IEEE result of a division by zero ("nan", "inf").      *)
(***************************************************************************)
EXTENDS Integers, Sequences, FiniteSets, TLC

VARIABLES
    env,        \* getenv("SYSRES_CPU_CORES"): Absent or File(text)
    files,      \* path -> Absent (fopen fails) or File(text)
    nprocs,     \* get_nprocs(): the host's logical cores
    sysinfo,    \* what sysinfo(2) fills in: totalram, freeram, mem_unit
    ret,        \* function -> what its last call returned (done: it was called)
    closes,     \* get_cpu_limit_millicores' last call: per path, whether the handle
                \* was opened and how many fclose calls it got
    pc,         \* get_memory_usage run step by step: where the call stands
    limit,      \* its local `limit` with the file the value came from
    used,       \* its local `used` with the file the value came from
    writes      \* rewrites of the memory cgroup files by another process so far

vars == <<env, files, nprocs, sysinfo, ret, closes, pc, limit, used, writes>>

------------------------------------------------------------------------------
(* Text.  A string is a sequence of one-character strings.                  *)

SP == <<" ">>
NL == <<"\n">>

Digits == <<"0", "1", "2", "3", "4", "5", "6", "7", "8", "9">>

IsDigit(c) == \E i \in 1..10 : Digits[i] = c

DigitVal(c) == (CHOOSE i \in 1..10 : Digits[i] = c) - 1

\* isspace() for the characters the model uses
IsSpace(c) == c \in {" ", "\n", "\t"}

RECURSIVE Dec(_)
\* the decimal text of a natural number (used to write the files' contents)
Dec(n) == IF n < 10 THEN <<Digits[n + 1]>> ELSE Dec(n \div 10) \o <<Digits[(n % 10) + 1]>>

\* the decimal text of an integer
SDec(n) == IF n < 0 THEN <<"-">> \o Dec(-n) ELSE Dec(n)

\* the first k characters of s: what fread(buff, 1, k, fd) leaves in a zeroed buffer
Prefix(s, k) == IF Len(s) <= k THEN s ELSE SubSeq(s, 1, k)

RECURSIVE SkipWs(_, _)
\* the first index >= i of s that holds no white space (Len(s)+1 when none)
SkipWs(s, i) == IF i <= Len(s) /\ IsSpace(s[i]) THEN SkipWs(s, i + 1) ELSE i

RECURSIVE SkipDigits(_, _)
\* the first index >= i of s that holds no digit
SkipDigits(s, i) == IF i <= Len(s) /\ IsDigit(s[i]) THEN SkipDigits(s, i + 1) ELSE i

RECURSIVE SkipToken(_, _)
\* the first index >= i of s that holds white space
SkipToken(s, i) == IF i <= Len(s) /\ ~IsSpace(s[i]) THEN SkipToken(s, i + 1) ELSE i

RECURSIVE DigitsValue(_, _, _, _)
\* the number written by the digits s[i..j-1], after acc
DigitsValue(s, i, j, acc) ==
    IF i >= j THEN acc ELSE DigitsValue(s, i + 1, j, acc * 10 + DigitVal(s[i]))

RECURSIVE Pow10(_)
Pow10(k) == IF k = 0 THEN 1 ELSE 10 * Pow10(k - 1)

\* strncmp(buff, "max", 3) == 0
StartsWithMax(s) == Len(s) >= 3 /\ s[1] = "m" /\ s[2] = "a" /\ s[3] = "x"

\* The integer conversion shared by strtoll, atoll and scanf's %lld / PRId64:
\* white space, an optional sign, decimal digits.  ok is FALSE when no digit
\* follows (scanf: matching failure; strtoll and atoll: 0).
ScanInt(s, i) ==
    LET a == SkipWs(s, i)
        signed == a <= Len(s) /\ s[a] \in {"-", "+"}
        b == IF signed THEN a + 1 ELSE a
        e == SkipDigits(s, b)
        v == DigitsValue(s, b, e, 0)
    IN  [ok |-> e > b,
         val |-> IF signed /\ s[a] = "-" THEN -v ELSE v,
         next |-> e]

\* strtoll(s + (i - 1), NULL, 10), and atoll
strtoll(s, i) == LET r == ScanInt(s, i) IN IF r.ok THEN r.val ELSE 0

\* scanf's %63s: white space, then the characters up to the next white space
ScanToken(s, i) ==
    LET a == SkipWs(s, i)
        e == SkipToken(s, a)
    IN  [ok |-> e > a, tok |-> SubSeq(s, a, e - 1), next |-> e]

------------------------------------------------------------------------------
(* Floats, as exact fractions.                                              *)

RECURSIVE GCD(_, _)
GCD(a, b) == IF b = 0 THEN a ELSE GCD(b, a % b)

Abs(x) == IF x < 0 THEN -x ELSE x

\* n / d for d > 0, in lowest terms
Frac(n, d) ==
    LET g == GCD(Abs(n), d)
    IN  [k |-> "num", n |-> n \div g, d |-> d \div g]

\* (float)a / (float)b as IEEE computes it when b may be 0
FloatDiv(a, b) ==
    IF b > 0 THEN Frac(a, b)
    ELSE IF b < 0 THEN Frac(-a, -b)
    ELSE IF a = 0 THEN [k |-> "nan"]
    ELSE [k |-> "inf", neg |-> a < 0]

FloatOf(n) == Frac(n, 1)

\* x > 0 and x <= 0 on floats (both are false of a NaN)
FloatPos(x) == (x.k = "num" /\ x.n > 0) \/ (x.k = "inf" /\ ~x.neg)

FloatLeq0(x) == (x.k = "num" /\ x.n <= 0) \/ (x.k = "inf" /\ x.neg)

\* strtof(s, NULL): white space, an optional sign, digits with an optional
\* fraction; 0 when no digit is found.
strtof(s) ==
    LET a == SkipWs(s, 1)
        signed == a <= Len(s) /\ s[a] \in {"-", "+"}
        b == IF signed THEN a + 1 ELSE a
        e == SkipDigits(s, b)
        dot == e <= Len(s) /\ s[e] = "."
        f == IF dot THEN SkipDigits(s, e + 1) ELSE e
        nfrac == IF dot THEN f - (e + 1) ELSE 0
        ip == DigitsValue(s, b, e, 0)
        fp == IF dot THEN DigitsValue(s, e + 1, f, 0) ELSE 0
        any == (e > b) \/ nfrac > 0
        mag == ip * Pow10(nfrac) + fp
    IN  IF ~any THEN FloatOf(0)
        ELSE Frac(IF signed /\ s[a] = "-" THEN -mag ELSE mag, Pow10(nfrac))

------------------------------------------------------------------------------
(* The files and the environment.                                           *)

CPU_MAX == "/sys/fs/cgroup/cpu.max"
MEMORY_MAX == "/sys/fs/cgroup/memory.max"
MEMORY_CURRENT == "/sys/fs/cgroup/memory.current"
PROC_MEMINFO == "/proc/meminfo"

\* monitor.c's quota_paths[] and period_paths[], in the order of the arrays
quota_paths == <<"/sys/fs/cgroup/cpu/cpu.cfs_quota_us", "/sys/fs/cgroup/cpu,cpuacct/cpu.cfs_quota_us">>

period_paths == <<"/sys/fs/cgroup/cpu/cpu.cfs_period_us", "/sys/fs/cgroup/cpu,cpuacct/cpu.cfs_period_us">>

Paths ==
    {CPU_MAX, MEMORY_MAX, MEMORY_CURRENT, PROC_MEMINFO}
        \cup {quota_paths[i] : i \in 1..2} \cup {period_paths[i] : i \in 1..2}

\* fopen() fails (or getenv() returns NULL)
Absent == [open |-> FALSE, text |-> <<>>]

\* fopen() succeeds and the file reads as `text` (getenv() returns `text`)
File(text) == [open |-> TRUE, text |-> text]

\* sizeof(buff) - 1 of the 64-byte buffers of cpu.c and memory.c
CgroupBufLen == 63

\* sizeof(buff) - 1 of get_proc_meminfo's buffer
MeminfoBufLen == 4095

------------------------------------------------------------------------------
(* lib/src/libsysres/cpu.c                                                  *)

get_cgroup_cpu_limit(fs) ==
    LET fd == fs[CPU_MAX]
        buff == Prefix(fd.text, CgroupBufLen)
        q == ScanInt(buff, 1)
        p == ScanInt(buff, q.next)
    IN  IF ~fd.open THEN FloatOf(-1)
        ELSE IF Len(buff) = 0 THEN FloatOf(-1)
        ELSE IF StartsWithMax(buff) THEN FloatOf(-1)
        ELSE IF ~(q.ok /\ p.ok) THEN FloatOf(-1)
        ELSE IF p.val <= 0 THEN FloatOf(-1)
        ELSE FloatDiv(q.val, p.val)

get_env_cpu_limit(e) ==
    LET cores == strtof(e.text)
    IN  IF ~e.open THEN FloatOf(-1)
        ELSE IF FloatLeq0(cores) THEN FloatOf(-1)
        ELSE cores

\* get_cpu_limit_cores with the two priorities exchanged
get_cpu_limit_cores_cgroup_first(e, fs, n) ==
    LET env_limit == get_env_cpu_limit(e)
        cgroup_limit == get_cgroup_cpu_limit(fs)
    IN  IF FloatPos(cgroup_limit) THEN cgroup_limit
        ELSE IF FloatPos(env_limit) THEN env_limit
        ELSE FloatOf(n)

get_cpu_limit_cores(e, fs, n) ==
    LET env_limit == get_env_cpu_limit(e)
        cgroup_limit == get_cgroup_cpu_limit(fs)
    IN  IF FloatPos(env_limit) THEN env_limit
        ELSE IF FloatPos(cgroup_limit) THEN cgroup_limit
        ELSE FloatOf(n)

------------------------------------------------------------------------------
(* lib/src/libsysres/memory.c                                               *)

\* strstr(buff, name): the index of the first occurrence of name in buff, 0
\* when there is none
strstr(buff, name) ==
    LET hits == {i \in 1..(Len(buff) - Len(name) + 1) :
                    SubSeq(buff, i, i + Len(name) - 1) = name}
    IN  IF hits = {} THEN 0 ELSE CHOOSE i \in hits : \A j \in hits : i <= j

get_entry(name, buff) ==
    LET hit == strstr(buff, name)
    IN  IF hit = 0 THEN 0 ELSE strtoll(buff, hit + Len(name))

read_cgroup_value(fs, path) ==
    LET fd == fs[path]
        buff == Prefix(fd.text, CgroupBufLen)
    IN  IF ~fd.open THEN -1
        ELSE IF Len(buff) = 0 THEN -1
        ELSE IF StartsWithMax(buff) THEN -1
        ELSE strtoll(buff, 1)

K_MemTotal == <<"M", "e", "m", "T", "o", "t", "a", "l", ":">>
K_MemFree == <<"M", "e", "m", "F", "r", "e", "e", ":">>
K_Buffers == <<"B", "u", "f", "f", "e", "r", "s", ":">>
K_Cached == <<"C", "a", "c", "h", "e", "d", ":">>

\* the two out-parameters of get_proc_meminfo
get_proc_meminfo(fs) ==
    LET fd == fs[PROC_MEMINFO]
        buff == Prefix(fd.text, MeminfoBufLen)
        total_kb == get_entry(K_MemTotal, buff)
        free_kb == get_entry(K_MemFree, buff)
        buffers_kb == get_entry(K_Buffers, buff)
        cached_kb == get_entry(K_Cached, buff)
    IN  IF ~fd.open THEN [total |-> 0, used |-> 0]
        ELSE IF Len(buff) = 0 THEN [total |-> 0, used |-> 0]
        ELSE [total |-> total_kb * 1024,
              used |-> (total_kb - free_kb - buffers_kb - cached_kb) * 1024]

\* has_cgroup_memory_limit taking a limit of 0 for a limit
has_cgroup_memory_limit_or_zero(fs) == read_cgroup_value(fs, MEMORY_MAX) >= 0

has_cgroup_memory_limit(fs) == read_cgroup_value(fs, MEMORY_MAX) > 0

is_container_env(fs) == has_cgroup_memory_limit(fs)

get_memory_limit_bytes(fs) ==
    LET cgroup_limit == read_cgroup_value(fs, MEMORY_MAX)
    IN  IF cgroup_limit > 0 THEN cgroup_limit ELSE get_proc_meminfo(fs).total

\* get_memory_used_bytes returning whatever the read of memory.current gave
get_memory_used_bytes_unchecked(fs) ==
    LET current == read_cgroup_value(fs, MEMORY_CURRENT)
    IN  IF has_cgroup_memory_limit(fs) THEN current
        ELSE get_proc_meminfo(fs).used

get_memory_used_bytes(fs) ==
    LET current == read_cgroup_value(fs, MEMORY_CURRENT)
    IN  IF has_cgroup_memory_limit(fs) /\ current >= 0 THEN current
        ELSE get_proc_meminfo(fs).used

\* The Linux get_memory_usage of lib/: the returned float, and whether the
\* division was executed and by what.
usage_ratio(lim, usd) ==
    IF lim <= 0 THEN [val |-> FloatOf(0), divided |-> FALSE, by |-> lim]
    ELSE [val |-> FloatDiv(usd, lim), divided |-> TRUE, by |-> lim]

get_memory_usage(fs) == usage_ratio(get_memory_limit_bytes(fs), get_memory_used_bytes(fs))

------------------------------------------------------------------------------
(* tools/libsysres/memory.c (Linux branch)                                  *)

get_memory_usage_tools(si) ==
    LET total_memory == si.totalram * si.mem_unit
        used_memory == (si.totalram - si.freeram) * si.mem_unit
    IN  [val |-> FloatDiv(used_memory, total_memory), divided |-> TRUE, by |-> total_memory]

------------------------------------------------------------------------------
(* 64-bit arithmetic.  monitor.c multiplies an int64_t by 1000, divides and  *)
(* narrows the quotient to int32_t; the product and the quotient pass 2^31,  *)
(* so an int64_t magnitude is kept as eight base-256 limbs, least            *)
(* significant first, beside its sign.                                       *)

RECURSIVE ToLimbs(_, _)
\* the k low limbs of the natural number n
ToLimbs(n, k) == IF k = 0 THEN <<>> ELSE <<n % 256>> \o ToLimbs(n \div 256, k - 1)

Zero64 == ToLimbs(0, 8)

\* an integer of the model as an int64_t
Int64(n) == [neg |-> n < 0, mag |-> ToLimbs(Abs(n), 8)]

RECURSIVE MulLimbs(_, _, _, _)
\* the limbs of a * m from limb i on, with the carry of the lower limbs; the
\* carry out of the last limb is dropped
MulLimbs(a, m, i, carry) ==
    IF i > Len(a) THEN <<>>
    ELSE LET cur == a[i] * m + carry
         IN  <<cur % 256>> \o MulLimbs(a, m, i + 1, cur \div 256)

RECURSIVE DivLimbs(_, _, _, _)
\* long division of a by p, from limb i down, rem the remainder of the higher
\* limbs: the quotient's limbs 1..i and the final remainder
DivLimbs(a, p, i, rem) ==
    IF i = 0 THEN [q |-> <<>>, r |-> rem]
    ELSE LET cur == rem * 256 + a[i]
             low == DivLimbs(a, p, i - 1, cur % p)
         IN  [q |-> low.q \o <<cur \div p>>, r |-> low.r]

RECURSIVE AddLimbs(_, _, _)
\* a + carry, from limb i on
AddLimbs(a, i, carry) ==
    IF i > Len(a) THEN <<>>
    ELSE LET cur == a[i] + carry
         IN  <<cur % 256>> \o AddLimbs(a, i + 1, cur \div 256)

\* x with the sign dropped when the magnitude is 0
Norm64(x) == IF x.mag = Zero64 THEN [neg |-> FALSE, mag |-> x.mag] ELSE x

\* (quota * 1000) / period in int64_t for period > 0: C's division truncates
\* toward zero, so the magnitudes divide and the sign is the dividend's
MulDiv64(quota, m, period) ==
    LET prod == MulLimbs(Int64(quota).mag, m, 1, 0)
    IN  Norm64([neg |-> quota < 0, mag |-> DivLimbs(prod, period, 8, 0).q])

\* (int32_t)x: the low 32 bits of x's two's complement, read as signed
Int32Cast(x) ==
    LET Signed(bits) ==
            (IF bits[4] >= 128 THEN 16777216 * (bits[4] - 256) ELSE 16777216 * bits[4])
                + bits[1] + 256 * bits[2] + 65536 * bits[3]
        Complement(low) == AddLimbs([i \in 1..4 |-> 255 - low[i]], 1, 1)
    IN  Signed(IF x.neg THEN Complement(SubSeq(x.mag, 1, 4)) ELSE SubSeq(x.mag, 1, 4))

------------------------------------------------------------------------------
(* deploy/monitor.c                                                         *)

\* the field width of fscanf's "%63s %63s"
TokenWidth == 63

\* one %63s conversion from index i
ScanS(s, i) ==
    LET Clip(t) ==
            IF Len(t.tok) <= TokenWidth THEN t
            ELSE [ok |-> TRUE, tok |-> SubSeq(t.tok, 1, TokenWidth),
                  next |-> t.next - (Len(t.tok) - TokenWidth)]
    IN  Clip(ScanToken(s, i))

TokMax == <<"m", "a", "x">>

\* Millicores dividing before it multiplies: (quota / period) * 1000
Millicores_divide_first(quota, period) ==
    Int32Cast(Norm64([neg |-> quota < 0,
                      mag |-> MulLimbs(DivLimbs(Int64(quota).mag, period, 8, 0).q, 1000, 1, 0)]))

\* (int32_t)((quota * 1000) / period)
Millicores(quota, period) == Int32Cast(MulDiv64(quota, 1000, period))

\* CpuMaxBranch without the test for "max"
CpuMaxBranch_no_max(fs) ==
    LET fp == fs[CPU_MAX]
        Convert(quota, period) ==
            IF period > 0
            THEN [returned |-> TRUE, val |-> Millicores(quota, period), nclose |-> 1]
            ELSE [returned |-> FALSE, val |-> 0, nclose |-> 1]
        Scanned(t1, t2) ==
            IF ~(t1.ok /\ t2.ok) THEN [returned |-> FALSE, val |-> 0, nclose |-> 1]
            ELSE Convert(strtoll(t1.tok, 1), strtoll(t2.tok, 1))
        First(t1) == Scanned(t1, ScanS(fp.text, t1.next))
    IN  IF ~fp.open THEN [returned |-> FALSE, val |-> 0, nclose |-> 0]
        ELSE First(ScanS(fp.text, 1))

\* Lines 46-58: the cpu.max branch.  returned: the function returns val from
\* here; nclose: the fclose(fp) calls made.
CpuMaxBranch(fs) ==
    LET fp == fs[CPU_MAX]
        Convert(quota, period) ==
            IF period > 0
            THEN [returned |-> TRUE, val |-> Millicores(quota, period), nclose |-> 1]
            ELSE [returned |-> FALSE, val |-> 0, nclose |-> 1]
        Scanned(t1, t2) ==
            IF ~(t1.ok /\ t2.ok) THEN [returned |-> FALSE, val |-> 0, nclose |-> 1]
            ELSE IF t1.tok = TokMax THEN [returned |-> TRUE, val |-> -1, nclose |-> 1]
            ELSE Convert(strtoll(t1.tok, 1), strtoll(t2.tok, 1))
        First(t1) == Scanned(t1, ScanS(fp.text, t1.next))
    IN  IF ~fp.open THEN [returned |-> FALSE, val |-> 0, nclose |-> 0]
        ELSE First(ScanS(fp.text, 1))

\* LegacyVariant reading the other variant's files: the loop run backwards
LegacyVariant_reversed(fs, i) ==
    LET fp_quota == fs[quota_paths[3 - i]]
        fp_period == fs[period_paths[3 - i]]
        tailq == IF fp_quota.open THEN 1 ELSE 0
        tailp == IF fp_period.open THEN 1 ELSE 0
        Scanned(q, p) ==
            IF ~(q.ok /\ p.ok)
            THEN [returned |-> FALSE, val |-> 0, nq |-> tailq, np |-> tailp]
            ELSE IF q.val = -1
            THEN [returned |-> TRUE, val |-> -1, nq |-> 1, np |-> 1]
            ELSE IF p.val > 0
            THEN [returned |-> TRUE, val |-> Millicores(q.val, p.val), nq |-> 1, np |-> 1]
            ELSE [returned |-> FALSE, val |-> 0, nq |-> 1 + tailq, np |-> 1 + tailp]
    IN  IF fp_quota.open /\ fp_period.open
        THEN Scanned(ScanInt(fp_quota.text, 1), ScanInt(fp_period.text, 1))
        ELSE [returned |-> FALSE, val |-> 0, nq |-> tailq, np |-> tailp]

\* Lines 70-83: one iteration of the legacy loop.  nq, np: the fclose calls
\* made on fp_quota and on fp_period.
LegacyVariant(fs, i) ==
    LET fp_quota == fs[quota_paths[i]]
        fp_period == fs[period_paths[i]]
        \* lines 82-83, reached when the iteration did not return
        tailq == IF fp_quota.open THEN 1 ELSE 0
        tailp == IF fp_period.open THEN 1 ELSE 0
        Scanned(q, p) ==
            IF ~(q.ok /\ p.ok)
            THEN [returned |-> FALSE, val |-> 0, nq |-> tailq, np |-> tailp]
            ELSE IF q.val = -1
            THEN [returned |-> TRUE, val |-> -1, nq |-> 1, np |-> 1]
            ELSE IF p.val > 0
            THEN [returned |-> TRUE, val |-> Millicores(q.val, p.val), nq |-> 1, np |-> 1]
            ELSE [returned |-> FALSE, val |-> 0, nq |-> 1 + tailq, np |-> 1 + tailp]
    IN  IF fp_quota.open /\ fp_period.open
        THEN Scanned(ScanInt(fp_quota.text, 1), ScanInt(fp_period.text, 1))
        ELSE [returned |-> FALSE, val |-> 0, nq |-> tailq, np |-> tailp]

\* The whole function: the value returned and, per path, how often the handle
\* opened on it was closed.  A step that is not reached closes nothing.
get_cpu_limit_millicores(fs) ==
    LET Trace(c, v1, v2, run1, run2) ==
            [val |-> IF c.returned THEN c.val
                     ELSE IF v1.returned THEN v1.val
                     ELSE IF v2.returned THEN v2.val
                     ELSE -1,
             opened |-> [p \in Paths |->
                            /\ fs[p].open
                            /\ \/ p = CPU_MAX
                               \/ p \in {quota_paths[1], period_paths[1]} /\ run1
                               \/ p \in {quota_paths[2], period_paths[2]} /\ run2],
             nclose |-> [p \in Paths |->
                            IF p = CPU_MAX THEN c.nclose
                            ELSE IF p = quota_paths[1] /\ run1 THEN v1.nq
                            ELSE IF p = period_paths[1] /\ run1 THEN v1.np
                            ELSE IF p = quota_paths[2] /\ run2 THEN v2.nq
                            ELSE IF p = period_paths[2] /\ run2 THEN v2.np
                            ELSE 0]]
        Loop(c, v1, v2) == Trace(c, v1, v2, ~c.returned, ~c.returned /\ ~v1.returned)
    IN  Loop(CpuMaxBranch(fs), LegacyVariant(fs, 1), LegacyVariant(fs, 2))

------------------------------------------------------------------------------
(* The inputs.                                                              *)

\* the host's logical cores range over 1..MaxNprocs
MaxNprocs == 2

\* cpu.max as the kernel writes it: "<quota> <period>\n" and "max <period>\n"
PairText(q, p) == File(SDec(q) \o SP \o SDec(p) \o NL)

MaxText(p) == File(TokMax \o SP \o SDec(p) \o NL)

\* a file holding one number and a newline
NumText(n) == File(SDec(n) \o NL)

\* a file holding the word "max" and a newline
MaxWord == File(TokMax \o NL)

\* a file that opens and reads as nothing
Empty == File(<<>>)

\* a file holding text that is no number
Garbage == File(<<"a", "b", "c", "\n">>)

\* SYSRES_CPU_CORES: the text, and the number it denotes (n / d)
EnvCases ==
    { [text |-> <<"2">>, n |-> 2, d |-> 1],
      [text |-> <<"0", ".", "5">>, n |-> 1, d |-> 2],
      [text |-> <<" ", "1", ".", "5">>, n |-> 3, d |-> 2],
      [text |-> <<"0">>, n |-> 0, d |-> 1],
      [text |-> <<"-", "1">>, n |-> -1, d |-> 1] }

\* values of SYSRES_CPU_CORES that denote no number
EnvNonNumeric == { <<"a", "b", "c">>, <<>> }

EnvValues == {Absent} \cup {File(c.text) : c \in EnvCases} \cup {File(t) : t \in EnvNonNumeric}

\* <<quota, period>> pairs of cpu.max
CpuPairs == { <<200000, 100000>>, <<150000, 100000>>, <<50000, 0>>, <<3000000, 1>>, <<-5, 100000>>, <<0, 100000>> }

CpuMaxValues ==
    {Absent, Empty, MaxText(100000), NumText(100000)} \cup {PairText(c[1], c[2]) : c \in CpuPairs}

\* <<quota file, period file>> of the first and of the second legacy variant
Legacy1Pairs == { <<50000, 100000>>, <<-1, 100000>>, <<50000, 0>>, <<3000000, 1>>, <<-5, 100000>> }

Legacy2Pairs == { <<250000, 100000>>, <<-1, 100000>>, <<70000, -1>> }

Legacy1Values ==
    { <<Absent, Absent>>, <<NumText(50000), Absent>>, <<Garbage, NumText(100000)>>,
      <<NumText(50000), Empty>> }
        \cup { <<NumText(c[1]), NumText(c[2])>> : c \in Legacy1Pairs }

Legacy2Values ==
    { <<Absent, Absent>>, <<Absent, NumText(100000)>> }
        \cup { <<NumText(c[1]), NumText(c[2])>> : c \in Legacy2Pairs }

Functions ==
    { "get_cpu_limit_cores", "get_cpu_limit_millicores", "is_container_env",
      "get_memory_limit_bytes", "get_memory_used_bytes", "get_memory_usage",
      "get_memory_usage_tools", "get_proc_meminfo" }

NotCalled == [done |-> FALSE]

Returned(v) == [done |-> TRUE, val |-> v]

NoFiles == [p \in Paths |-> Absent]

NoSysinfo == [totalram |-> 0, freeram |-> 0, mem_unit |-> 1]

NoHandles == [opened |-> [p \in Paths |-> FALSE], nclose |-> [p \in Paths |-> 0]]

\* nothing called yet, and no get_memory_usage in progress
InitCalls ==
    /\ ret = [f \in Functions |-> NotCalled]
    /\ closes = NoHandles
    /\ pc = "idle"
    /\ limit = [val |-> 0, src |-> "none"]
    /\ used = [val |-> 0, src |-> "none"]
    /\ writes = 0

------------------------------------------------------------------------------
(* The calls.  Each is one whole call of the function against the files and  *)
(* the environment as they are.                                              *)

call_get_cpu_limit_cores ==
    /\ ret' = [ret EXCEPT !["get_cpu_limit_cores"] = Returned(get_cpu_limit_cores(env, files, nprocs))]
    /\ UNCHANGED <<env, files, nprocs, sysinfo, closes, pc, limit, used, writes>>

\* fclose() of a handle that is already closed is undefined: the call goes on
\* as if nothing happened, or the process is aborted (glibc's double-free check)
call_get_cpu_limit_millicores ==
    \E r \in {get_cpu_limit_millicores(files)} :
        /\ \E crashed \in (IF \E p \in Paths : r.nclose[p] > 1 THEN BOOLEAN ELSE {FALSE}) :
              ret' = [ret EXCEPT !["get_cpu_limit_millicores"] =
                         [done |-> TRUE, crashed |-> crashed, val |-> IF crashed THEN 0 ELSE r.val]]
        /\ closes' = [opened |-> r.opened, nclose |-> r.nclose]
        /\ UNCHANGED <<env, files, nprocs, sysinfo, pc, limit, used, writes>>

InitCpu ==
    /\ env \in EnvValues
    /\ \E c \in CpuMaxValues, l1 \in Legacy1Values, l2 \in Legacy2Values :
          files = [NoFiles EXCEPT ![CPU_MAX] = c,
                                  ![quota_paths[1]] = l1[1], ![period_paths[1]] = l1[2],
                                  ![quota_paths[2]] = l2[1], ![period_paths[2]] = l2[2]]
    /\ nprocs \in 1..MaxNprocs
    /\ sysinfo = NoSysinfo
    /\ InitCalls

NextCpu == call_get_cpu_limit_cores \/ call_get_cpu_limit_millicores

SpecCpu == InitCpu /\ [][NextCpu]_vars

------------------------------------------------------------------------------
(* The memory side: inputs and calls.                                        *)

K_SwapCached == <<"S", "w", "a", "p">> \o K_Cached
K_MemAvailable == <<"M", "e", "m", "A", "v", "a", "i", "l", "a", "b", "l", "e", ":">>

\* one line of /proc/meminfo: "<key>   <kB> kB\n"
MemLine(key, kb) == key \o <<" ", " ", " ">> \o Dec(kb) \o <<" ", "k", "B", "\n">>

RECURSIVE BlockText(_)
\* the text of a block given as a sequence of <<key, kB>> lines
BlockText(b) == IF b = <<>> THEN <<>> ELSE MemLine(b[1][1], b[1][2]) \o BlockText(Tail(b))

\* /proc/meminfo blocks: the four keys alone; the kernel's order with other
\* keys between; keys missing; SwapCached with no Cached line; SwapCached
\* ahead of Cached; a block with no key at all
MeminfoBlocks ==
    { << <<K_MemTotal, 2000000>>, <<K_MemFree, 500000>>, <<K_Buffers, 100000>>, <<K_Cached, 400000>> >>,
      << <<K_MemTotal, 2000000>>, <<K_MemFree, 500000>>, <<K_MemAvailable, 1200000>>,
         <<K_Buffers, 100000>>, <<K_Cached, 400000>>, <<K_SwapCached, 300>> >>,
      << <<K_MemTotal, 1000>>, <<K_MemFree, 200>> >>,
      << <<K_MemTotal, 2000000>>, <<K_MemFree, 500000>>, <<K_SwapCached, 300>> >>,
      << <<K_MemTotal, 2000000>>, <<K_SwapCached, 300>>, <<K_Cached, 400000>> >>,
      << <<K_MemAvailable, 1200000>> >> }

MeminfoValues == {Absent, Empty} \cup {File(BlockText(b)) : b \in MeminfoBlocks}

\* numbers written to memory.max and to memory.current
MemMaxNumbers == {1073741824, 0, -5}

MemCurrentNumbers == {536870912, 0, -3}

MemMaxValues == {Absent, Empty, MaxWord, Garbage} \cup {NumText(n) : n \in MemMaxNumbers}

MemCurrentValues == {Absent, Empty, MaxWord, Garbage} \cup {NumText(n) : n \in MemCurrentNumbers}

\* sysinfo(2): the kernel reports freeram <= totalram
SysinfoValues ==
    { [totalram |-> 0, freeram |-> 0, mem_unit |-> 1],
      [totalram |-> 1000, freeram |-> 400, mem_unit |-> 1],
      [totalram |-> 1000, freeram |-> 1000, mem_unit |-> 4096] }

call_is_container_env ==
    /\ ret' = [ret EXCEPT !["is_container_env"] = Returned(is_container_env(files))]
    /\ UNCHANGED <<env, files, nprocs, sysinfo, closes, pc, limit, used, writes>>

call_get_memory_limit_bytes ==
    /\ ret' = [ret EXCEPT !["get_memory_limit_bytes"] = Returned(get_memory_limit_bytes(files))]
    /\ UNCHANGED <<env, files, nprocs, sysinfo, closes, pc, limit, used, writes>>

call_get_memory_used_bytes ==
    /\ ret' = [ret EXCEPT !["get_memory_used_bytes"] = Returned(get_memory_used_bytes(files))]
    /\ UNCHANGED <<env, files, nprocs, sysinfo, closes, pc, limit, used, writes>>

call_get_memory_usage ==
    /\ ret' = [ret EXCEPT !["get_memory_usage"] = Returned(get_memory_usage(files))]
    /\ UNCHANGED <<env, files, nprocs, sysinfo, closes, pc, limit, used, writes>>

call_get_memory_usage_tools ==
    /\ ret' = [ret EXCEPT !["get_memory_usage_tools"] = Returned(get_memory_usage_tools(sysinfo))]
    /\ UNCHANGED <<env, files, nprocs, sysinfo, closes, pc, limit, used, writes>>

call_get_proc_meminfo ==
    /\ ret' = [ret EXCEPT !["get_proc_meminfo"] = Returned(get_proc_meminfo(files))]
    /\ UNCHANGED <<env, files, nprocs, sysinfo, closes, pc, limit, used, writes>>

\* the memory readers against every memory.max, memory.current and meminfo
InitMem ==
    /\ env = Absent
    /\ \E m \in MemMaxValues, c \in MemCurrentValues, i \in MeminfoValues :
          files = [NoFiles EXCEPT ![MEMORY_MAX] = m, ![MEMORY_CURRENT] = c, ![PROC_MEMINFO] = i]
    /\ nprocs = 1
    /\ sysinfo \in SysinfoValues
    /\ InitCalls

NextMem ==
    \/ call_get_memory_limit_bytes
    \/ call_get_memory_used_bytes
    \/ call_get_memory_usage
    \/ call_get_memory_usage_tools
    \/ call_get_proc_meminfo

SpecMem == InitMem /\ [][NextMem]_vars

\* the container classifier against memory.max, with the inputs varied that
\* it must not depend on
InitContainer ==
    /\ env \in {Absent, File(<<"2">>)}
    /\ \E m \in MemMaxValues, c \in {Absent, PairText(200000, 100000)},
          i \in {Absent, File(BlockText(<< <<K_MemTotal, 2000000>>, <<K_MemFree, 500000>> >>))} :
          files = [NoFiles EXCEPT ![MEMORY_MAX] = m, ![CPU_MAX] = c, ![PROC_MEMINFO] = i]
    /\ nprocs \in 1..MaxNprocs
    /\ sysinfo = NoSysinfo
    /\ InitCalls

NextContainer == call_is_container_env \/ call_get_memory_limit_bytes \/ call_get_cpu_limit_cores

SpecContainer == InitContainer /\ [][NextContainer]_vars

\* the three limit readers against bounded, unbounded and absent sources
InitLimits ==
    /\ env \in {Absent, File(<<"2">>)}
    /\ \E c \in {Absent, Empty, MaxText(100000), PairText(200000, 100000)},
          l1 \in { <<Absent, Absent>>, <<NumText(50000), NumText(100000)>>,
                   <<NumText(-1), NumText(100000)>>, <<NumText(50000), NumText(0)>> },
          l2 \in { <<Absent, Absent>>, <<NumText(-1), NumText(100000)>>,
                   <<NumText(250000), NumText(100000)>> },
          m \in {Absent, MaxWord, NumText(1073741824)},
          i \in {Absent, File(BlockText(<< <<K_MemTotal, 2000000>>, <<K_MemFree, 500000>> >>))} :
          files = [NoFiles EXCEPT ![CPU_MAX] = c,
                                  ![quota_paths[1]] = l1[1], ![period_paths[1]] = l1[2],
                                  ![quota_paths[2]] = l2[1], ![period_paths[2]] = l2[2],
                                  ![MEMORY_MAX] = m, ![PROC_MEMINFO] = i]
    /\ nprocs \in 1..MaxNprocs
    /\ sysinfo = NoSysinfo
    /\ InitCalls

NextLimits ==
    call_get_cpu_limit_cores \/ call_get_cpu_limit_millicores \/ call_get_memory_limit_bytes

SpecLimits == InitLimits /\ [][NextLimits]_vars

------------------------------------------------------------------------------
(* get_memory_usage step by step, beside a process that rewrites the memory  *)
(* cgroup files.  Each step is one read of one cgroup file (with the read of *)
(* /proc/meminfo that follows it in the same function, which nobody          *)
(* rewrites).  limit and used carry the hierarchy the value was read from.   *)

\* rewrites of the cgroup files during one call
MaxWrites == 2

\* line 142: get_memory_limit_bytes()
usage_read_limit ==
    /\ pc = "idle"
    /\ limit' = [val |-> get_memory_limit_bytes(files),
                 src |-> IF read_cgroup_value(files, MEMORY_MAX) > 0 THEN "cgroup" ELSE "meminfo"]
    /\ pc' = "has_limit"
    /\ UNCHANGED <<env, files, nprocs, sysinfo, ret, closes, used, writes>>

\* line 143, get_memory_used_bytes(): line 125, has_cgroup_memory_limit()
usage_has_limit ==
    /\ pc = "has_limit"
    /\ pc' = IF has_cgroup_memory_limit(files) THEN "read_current" ELSE "read_meminfo"
    /\ UNCHANGED <<env, files, nprocs, sysinfo, ret, closes, limit, used, writes>>

\* lines 127-131: the read of memory.current
usage_read_current ==
    /\ pc = "read_current"
    /\ \E current \in {read_cgroup_value(files, MEMORY_CURRENT)} :
          IF current >= 0
          THEN used' = [val |-> current, src |-> "cgroup"] /\ pc' = "divide"
          ELSE used' = used /\ pc' = "read_meminfo"
    /\ UNCHANGED <<env, files, nprocs, sysinfo, ret, closes, limit, writes>>

\* lines 135-137: the fall back to /proc/meminfo
usage_read_meminfo ==
    /\ pc = "read_meminfo"
    /\ used' = [val |-> get_proc_meminfo(files).used, src |-> "meminfo"]
    /\ pc' = "divide"
    /\ UNCHANGED <<env, files, nprocs, sysinfo, ret, closes, limit, writes>>

\* lines 145-150
usage_return ==
    /\ pc = "divide"
    /\ ret' = [ret EXCEPT !["get_memory_usage"] = Returned(usage_ratio(limit.val, used.val))]
    /\ pc' = "done"
    /\ UNCHANGED <<env, files, nprocs, sysinfo, closes, limit, used, writes>>

\* another process (the cgroup's manager) rewrites or removes memory.max or
\* memory.current while the call runs
rewrite ==
    /\ pc \notin {"idle", "done"}
    /\ writes < MaxWrites
    /\ \E p \in {MEMORY_MAX, MEMORY_CURRENT} :
          \E c \in {Absent, MaxWord, NumText(IF p = MEMORY_MAX THEN 2147483647 ELSE 268435456)} :
              /\ files[p] # c
              /\ files' = [files EXCEPT ![p] = c]
    /\ writes' = writes + 1
    /\ UNCHANGED <<env, nprocs, sysinfo, ret, closes, pc, limit, used>>

\* a container (memory.max and memory.current both readable) or a host (no
\* bounded memory.max), as the call begins
InitRace ==
    /\ env = Absent
    /\ \E mc \in { <<NumText(1073741824), NumText(536870912)>>, <<NumText(1073741824), NumText(0)>>,
                   <<MaxWord, NumText(536870912)>>, <<Absent, Absent>> },
          i \in {Absent} \cup {File(BlockText(b)) : b \in MeminfoBlocks} :
          files = [NoFiles EXCEPT ![MEMORY_MAX] = mc[1], ![MEMORY_CURRENT] = mc[2],
                                  ![PROC_MEMINFO] = i]
    /\ nprocs = 1
    /\ sysinfo = NoSysinfo
    /\ InitCalls

NextRace ==
    \/ usage_read_limit
    \/ usage_has_limit
    \/ usage_read_current
    \/ usage_read_meminfo
    \/ usage_return
    \/ rewrite

SpecRace == InitRace /\ [][NextRace]_vars

------------------------------------------------------------------------------
(* What the inputs mean, for the statements below.                          *)

Cores == ret["get_cpu_limit_cores"]
Milli == ret["get_cpu_limit_millicores"]

\* the float n / d
Float(n, d) == [k |-> "num", n |-> n, d |-> d]

\* x = q / p for p > 0
IsRatio(x, q, p) == x.k = "num" /\ x.n * p = q * x.d

\* the cases of SYSRES_CPU_CORES that are set to a number > 0
PositiveOverride == {c \in EnvCases : c.n > 0 /\ env = File(c.text)}

\* the <<quota, period>> pair cpu.max holds, if it holds one
CpuMaxPair == {c \in CpuPairs : files[CPU_MAX] = PairText(c[1], c[2])}

\* the <<quota, period>> pair the files of legacy variant i hold, if they hold one
LegacyPair(i) ==
    {c \in Legacy1Pairs \cup Legacy2Pairs :
        files[quota_paths[i]] = NumText(c[1]) /\ files[period_paths[i]] = NumText(c[2])}

------------------------------------------------------------------------------
(* C1: get_cpu_limit_cores returns the value of SYSRES_CPU_CORES if and only *)
(* if the variable is set to a number > 0, whatever cpu.max holds and        *)
(* whatever the host's core count; an override that is unset, "0", "-1" or   *)
(* not a number is ignored: the result is the one the call gives with the    *)
(* variable unset.                                                           *)
C1_OverrideWinsIffPositive ==
    Cores.done =>
        /\ \A c \in PositiveOverride : Cores.val = Float(c.n, c.d)
        /\ PositiveOverride = {} => Cores.val = get_cpu_limit_cores(Absent, files, nprocs)

\* the override "0.5" returned over a cpu.max of two cores
C1_Witness ==
    /\ Cores.done
    /\ env = File(<<"0", ".", "5">>)
    /\ files[CPU_MAX] = PairText(200000, 100000)
    /\ Cores.val = Float(1, 2)

\* the override "0" ignored: the one and a half cores of cpu.max returned
C1_WitnessIgnored ==
    /\ Cores.done
    /\ env = File(<<"0">>)
    /\ files[CPU_MAX] = PairText(150000, 100000)
    /\ Cores.val = Float(3, 2)

------------------------------------------------------------------------------
(* The tier get_cpu_limit_millicores answers from, read off the files.       *)

\* cpu.max does not make the function return: it cannot be opened, holds fewer
\* than two tokens, or holds a period <= 0
CpuMaxFallsThrough ==
    \/ files[CPU_MAX] \in {Absent, Empty, NumText(100000)}
    \/ \E c \in CpuMaxPair : c[2] <= 0

\* legacy variant i holds quota -1
LegacyUnbounded(i) == \E c \in LegacyPair(i) : c[1] = -1

\* the pair legacy variant i converts: both files parse, quota is not -1, period > 0
LegacyConverts(i) == {c \in LegacyPair(i) : c[1] # -1 /\ c[2] > 0}

LegacySkipped(i) == ~LegacyUnbounded(i) /\ LegacyConverts(i) = {}

\* the <<quota, period>> pair the returned milli-core value is computed from
ConvertedPair ==
    IF ~CpuMaxFallsThrough THEN {c \in CpuMaxPair : c[2] > 0}
    ELSE IF ~LegacySkipped(1) THEN LegacyConverts(1)
    ELSE LegacyConverts(2)

\* the function answers -1: "max" in cpu.max, quota -1 in the first legacy
\* variant that is not skipped, or no source at all
AnswersMinusOne ==
    IF ~CpuMaxFallsThrough THEN files[CPU_MAX] = MaxText(100000)
    ELSE IF ~LegacySkipped(1) THEN LegacyUnbounded(1)
    ELSE IF ~LegacySkipped(2) THEN LegacyUnbounded(2)
    ELSE TRUE

------------------------------------------------------------------------------
------------------------------------------------------------------------------
(* C6.  quota * 1000 / period as mathematics, in 64-bit limbs.               *)

\* floor(q * m / p) for p > 0
Floor64(q, m, p) ==
    LET Round(d) ==
            IF q >= 0 \/ d.r = 0 THEN Norm64([neg |-> q < 0, mag |-> d.q])
            ELSE [neg |-> TRUE, mag |-> AddLimbs(d.q, 1, 1)]
    IN  Round(DivLimbs(MulLimbs(ToLimbs(Abs(q), 8), m, 1, 0), p, 8, 0))

\* q * m / p rounded toward zero, for p > 0
Trunc64(q, m, p) ==
    LET Round(d) == Norm64([neg |-> q < 0, mag |-> d.q])
    IN  Round(DivLimbs(MulLimbs(ToLimbs(Abs(q), 8), m, 1, 0), p, 8, 0))

\* x lies in the range of int32_t
FitsInt32(x) ==
    /\ \A i \in 5..8 : x.mag[i] = 0
    /\ \/ x.mag[4] < 128
       \/ x.neg /\ x.mag[4] = 128 /\ \A i \in 1..3 : x.mag[i] = 0

\* the 32 bits of the int32_t v, as four limbs
Bits32(v) ==
    IF v >= 0 THEN ToLimbs(v, 4)
    ELSE [ToLimbs((v + 2147483647) + 1, 4) EXCEPT ![4] = @ + 128]

\* x is congruent to the int32_t v modulo 2^32
SameLow32(x, v) ==
    IF x.neg
    THEN AddLimbs(SubSeq(x.mag, 1, 4), 1, 0) = AddLimbs([i \in 1..4 |-> 255 - Bits32(v)[i]], 1, 1)
    ELSE SubSeq(x.mag, 1, 4) = Bits32(v)

(* C6, as claimed: for every quota/period pair get_cpu_limit_millicores      *)
(* reads with period > 0 and a quota that is neither "max" nor -1, the       *)
(* returned value is floor(quota * 1000 / period), also for a quotient       *)
(* beyond 32 bits and for a negative or zero quota.                          *)
C6_MillicoresIsFloor ==
    (Milli.done /\ ~Milli.crashed /\ ~AnswersMinusOne) =>
        \A c \in ConvertedPair : Int64(Milli.val) = Floor64(c[1], 1000, c[2])

(* C6, amended: the returned value is quota * 1000 / period rounded toward   *)
(* zero and narrowed to 32 bits (congruent to the quotient modulo 2^32); it  *)
(* is floor(quota * 1000 / period) whenever quota >= 0 and the quotient fits *)
(* the 32-bit return type.                                                   *)
C6_MillicoresIsTruncatedAndNarrowed ==
    (Milli.done /\ ~Milli.crashed /\ ~AnswersMinusOne) =>
        \A c \in ConvertedPair :
            /\ SameLow32(Trunc64(c[1], 1000, c[2]), Milli.val)
            /\ FitsInt32(Trunc64(c[1], 1000, c[2])) =>
                  Int64(Milli.val) = Trunc64(c[1], 1000, c[2])
            /\ (c[1] >= 0 /\ FitsInt32(Floor64(c[1], 1000, c[2]))) =>
                  Int64(Milli.val) = Floor64(c[1], 1000, c[2])

\* 3000000/1 gives 3000000000 - 2^32
C6_Witness ==
    /\ Milli.done /\ ~Milli.crashed
    /\ <<3000000, 1>> \in ConvertedPair /\ Milli.val = -1294967296

\* -5/100000 gives 0, where the floor is -1
C6_WitnessNegative ==
    /\ Milli.done /\ ~Milli.crashed
    /\ <<-5, 100000>> \in ConvertedPair /\ Milli.val = 0

------------------------------------------------------------------------------
(* C10: on every path of get_cpu_limit_millicores each handle that was       *)
(* opened is closed exactly once: none twice, none left open.                *)
C10_EachHandleClosedOnce ==
    Milli.done =>
        \A p \in Paths : closes.nclose[p] = (IF closes.opened[p] THEN 1 ELSE 0)

------------------------------------------------------------------------------
(* What the memory files mean.                                               *)

IsContainer == ret["is_container_env"]
MemLimit == ret["get_memory_limit_bytes"]
MemUsed == ret["get_memory_used_bytes"]
Usage == ret["get_memory_usage"]
UsageTools == ret["get_memory_usage_tools"]
Meminfo == ret["get_proc_meminfo"]

\* the bounded limit > 0 that memory.max holds, if it holds one
MemMaxBytes == {n \in MemMaxNumbers : n > 0 /\ files[MEMORY_MAX] = NumText(n)}

\* the block /proc/meminfo holds, if it holds one
MeminfoBlock == {b \in MeminfoBlocks : files[PROC_MEMINFO] = File(BlockText(b))}

\* the kB of the line of block b whose key is `key`, 0 when b has no such line
KeyValue(b, key) ==
    LET lines == {i \in 1..Len(b) : b[i][1] = key}
    IN  IF lines = {} THEN 0 ELSE b[CHOOSE i \in lines : TRUE][2]

------------------------------------------------------------------------------
(* C4: is_container_env is true if and only if memory.max is readable and    *)
(* holds a bounded value > 0; the CPU file, SYSRES_CPU_CORES and             *)
(* /proc/meminfo have no part in it; and it is true exactly when             *)
(* get_memory_limit_bytes returns the memory.max value and not the host      *)
(* total.                                                                    *)
C4_ContainerIffBoundedMemoryMax ==
    /\ IsContainer.done => (IsContainer.val <=> MemMaxBytes # {})
    /\ (IsContainer.done /\ MemLimit.done) =>
          /\ IsContainer.val => MemLimit.val \in MemMaxBytes
          /\ ~IsContainer.val => MemLimit.val = get_proc_meminfo(files).total

\* memory.max holds 1 GiB beside a cpu.max, an override and a meminfo: true,
\* and the limit is the 1 GiB
C4_Witness ==
    /\ IsContainer.done /\ MemLimit.done
    /\ files[MEMORY_MAX] = NumText(1073741824)
    /\ files[CPU_MAX] # Absent /\ files[PROC_MEMINFO] # Absent /\ env # Absent
    /\ IsContainer.val /\ MemLimit.val = 1073741824

\* a cpu.max limit and no memory.max: not a container, the limit is the host's
C4_WitnessHost ==
    /\ IsContainer.done /\ MemLimit.done
    /\ files[MEMORY_MAX] = MaxWord /\ files[CPU_MAX] # Absent /\ files[PROC_MEMINFO] # Absent
    /\ ~IsContainer.val /\ MemLimit.val = 2000000 * 1024

------------------------------------------------------------------------------
(* C3: whenever the resolved memory limit is <= 0, get_memory_usage returns  *)
(* an "unknown" that a caller can tell from a ratio of 0.0, and it divides   *)
(* by no zero total; in lib/ and in tools/.                                  *)
C3_UnknownWhenNoLimit ==
    /\ (Usage.done /\ get_memory_limit_bytes(files) <= 0) =>
          Usage.val.val # Float(0, 1) /\ ~Usage.val.divided
    /\ (UsageTools.done /\ sysinfo.totalram * sysinfo.mem_unit <= 0) =>
          UsageTools.val.val # Float(0, 1) /\ ~UsageTools.val.divided

------------------------------------------------------------------------------
(* C7: for every /proc/meminfo block the reader gives total = MemTotal*1024  *)
(* and used = (MemTotal - MemFree - Buffers - Cached)*1024, a key that is no *)
(* key of the block counting 0, also when another key's name contains it.    *)
C7_MeminfoTotalAndUsed ==
    Meminfo.done =>
        \A b \in MeminfoBlock :
            /\ Meminfo.val.total = KeyValue(b, K_MemTotal) * 1024
            /\ Meminfo.val.used =
                  (KeyValue(b, K_MemTotal) - KeyValue(b, K_MemFree)
                      - KeyValue(b, K_Buffers) - KeyValue(b, K_Cached)) * 1024

------------------------------------------------------------------------------
(* C8, as claimed: whenever a cgroup memory limit exists, the used bytes are *)
(* the value read from memory.current and never a value computed from        *)
(* /proc/meminfo; they are computed from /proc/meminfo only when no cgroup   *)
(* memory limit exists.                                                      *)
C8_UsedIsMemoryCurrentInContainer ==
    MemUsed.done =>
        IF MemMaxBytes # {}
        THEN \E n \in MemCurrentNumbers :
                files[MEMORY_CURRENT] = NumText(n) /\ MemUsed.val = n
        ELSE MemUsed.val = get_proc_meminfo(files).used

(* C8, amended: when a cgroup memory limit exists and memory.current opens,  *)
(* is not empty, does not start with "max" and does not parse to a negative  *)
(* number, the used bytes are the number read from it (0 for text that is no *)
(* number); when a cgroup memory limit exists but memory.current is missing, *)
(* empty, "max" or negative, and when no cgroup memory limit exists, they    *)
(* are computed from /proc/meminfo.                                          *)
C8_UsedFallsBackToMeminfo ==
    MemUsed.done =>
        IF MemMaxBytes # {} /\ \E n \in MemCurrentNumbers : n >= 0 /\ files[MEMORY_CURRENT] = NumText(n)
        THEN files[MEMORY_CURRENT] = NumText(MemUsed.val)
        ELSE IF MemMaxBytes # {} /\ files[MEMORY_CURRENT] = Garbage
        THEN MemUsed.val = 0
        ELSE MemUsed.val = get_proc_meminfo(files).used

\* a cgroup limit with no memory.current: the used bytes of /proc/meminfo
C8_Witness ==
    /\ MemUsed.done
    /\ files[MEMORY_MAX] = NumText(1073741824)
    /\ files[MEMORY_CURRENT] = Absent
    /\ files[PROC_MEMINFO] = File(BlockText(<< <<K_MemTotal, 1000>>, <<K_MemFree, 200>> >>))
    /\ MemUsed.val = 800 * 1024

\* a cgroup limit with memory.current: the value of memory.current
C8_WitnessCurrent ==
    /\ MemUsed.done
    /\ files[MEMORY_MAX] = NumText(1073741824)
    /\ files[MEMORY_CURRENT] = NumText(536870912)
    /\ files[PROC_MEMINFO] # Absent
    /\ MemUsed.val = 536870912

------------------------------------------------------------------------------
------------------------------------------------------------------------------
(* C9: within one call of get_memory_usage the numerator and the denominator *)
(* come from the same hierarchy (memory.current over memory.max, or meminfo  *)
(* used over meminfo total), also when another process rewrites or removes   *)
(* memory.max or memory.current between the reads of the call.               *)
C9_SameHierarchy ==
    pc = "done" => limit.src = used.src

==============================================================================
